---- MODULE Spec2Model ----
(***************************************************************************)
(* A model of server.js: the URL classifier, the YouTube normalizer, the   *)
(* duration formatter, the three metadata providers and the request        *)
(* handlers of /api/health, /api/metadata and /api/download.               *)
(*                                                                         *)
(* Strings are TLA+ strings; String.prototype.includes, split and padStart *)
(* are computed character by character.  A value that JavaScript may leave *)
(* undefined is the string Undefined; a JavaScript number is a record      *)
(* [t, n].  The result of `new URL(s)` is given with the input (the parser *)
(* belongs to the platform, not to this repository).                       *)
(***************************************************************************)
EXTENDS Integers, Sequences, FiniteSets, TLC

VARIABLES API_KEY, pc, req, url, platform, res, calls, failures, lateCalls,
          timedOut, upstream, streamUrl, metadata, selectedOption, seconds,
          formatted

vars == <<API_KEY, pc, req, url, platform, res, calls, failures, lateCalls,
          timedOut, upstream, streamUrl, metadata, selectedOption, seconds,
          formatted>>

(***************************************************************************)
(* Bounds of the model.                                                    *)
(***************************************************************************)
\* formatDuration is applied to every integer in -MinSeconds .. MaxSeconds
MaxSeconds == 3700
MinSeconds == 5

(***************************************************************************)
(* Program constants.                                                      *)
(***************************************************************************)
NoembedTimeoutMs == 8000
TikTokTimeoutMs == 10000
StreamTimeoutMs == 30000

Undefined == "<undefined>"

TIKTOK_API_URL == "https://www.tikwm.com/api/"
NOEMBED_API_URL == "https://noembed.com/embed"

Platforms == <<"YouTube", "TikTok", "Facebook">>

PLATFORM_DOMAINS ==
    [YouTube |-> <<"youtube.com", "www.youtube.com", "youtu.be", "m.youtube.com">>,
     TikTok |-> <<"tiktok.com", "www.tiktok.com", "vm.tiktok.com">>,
     Facebook |-> <<"facebook.com", "www.facebook.com", "m.facebook.com", "fb.watch">>]

(***************************************************************************)
(* JavaScript string primitives.                                           *)
(***************************************************************************)
\* s.includes(t)
Includes(s, t) ==
    \E i \in 1..(Len(s) - Len(t) + 1) : SubSeq(s, i, i + Len(t) - 1) = t

\* s.split("/")
RECURSIVE SplitSlash(_)
SplitSlash(s) ==
    IF ~Includes(s, "/")
    THEN <<s>>
    ELSE LET i == CHOOSE k \in 1..Len(s) :
                    /\ SubSeq(s, k, k) = "/"
                    /\ \A j \in 1..(k - 1) : SubSeq(s, j, j) # "/"
         IN  <<SubSeq(s, 1, i - 1)>> \o SplitSlash(SubSeq(s, i + 1, Len(s)))

\* s.padStart(2, "0")
PadStart2(s) == IF Len(s) < 2 THEN "0" \o s ELSE s

\* parts.join(":")
RECURSIVE JoinColon(_)
JoinColon(parts) ==
    IF Len(parts) = 0 THEN ""
    ELSE IF Len(parts) = 1 THEN parts[1]
    ELSE parts[1] \o ":" \o JoinColon(Tail(parts))

\* JavaScript truthiness of a string-or-undefined value
Truthy(v) == v # Undefined /\ v # ""

(***************************************************************************)
(* 4.1 URL classifier.                                                     *)
(***************************************************************************)
\* the value of req.query.url: kind is "undefined", "nonstring" (the query
\* parser's array or object for ?url=a&url=b, ?url[x]=y) or "string"; text is
\* the string; parses says whether new URL(text) succeeds, and protocol,
\* hostname, pathname and v (searchParams.get("v")) are its result.
Url(text, protocol, hostname, pathname, v) ==
    [kind |-> "string", text |-> text, parses |-> TRUE, protocol |-> protocol,
     hostname |-> hostname, pathname |-> pathname, v |-> v]

NotUrl(kind, text) ==
    [kind |-> kind, text |-> text, parses |-> FALSE, protocol |-> "",
     hostname |-> "", pathname |-> "", v |-> Undefined]

VideoId == "dQw4w9WgXcQ"

UrlInputs ==
    { NotUrl("undefined", ""),
      NotUrl("nonstring", ""),
      NotUrl("string", ""),
      NotUrl("string", "youtube.com/watch"),
      Url("ftp://youtube.com/clip", "ftp:", "youtube.com", "/clip", Undefined),
      Url("https://example.com/video", "https:", "example.com", "/video", Undefined),
      Url("https://www.youtube.com/watch?v=dQw4w9WgXcQ", "https:",
          "www.youtube.com", "/watch", VideoId),
      Url("https://youtu.be/dQw4w9WgXcQ", "https:", "youtu.be",
          "/dQw4w9WgXcQ", Undefined),
      Url("https://youtube.com/shorts/dQw4w9WgXcQ", "https:", "youtube.com",
          "/shorts/dQw4w9WgXcQ", Undefined),
      Url("https://www.youtube.com/watch", "https:", "www.youtube.com",
          "/watch", Undefined),
      Url("https://vm.tiktok.com/ZMabc/", "https:", "vm.tiktok.com",
          "/ZMabc/", Undefined),
      Url("http://www.facebook.com/watch/12345", "http:", "www.facebook.com",
          "/watch/12345", Undefined) }

isValidUrl(u) ==
    IF u.parses THEN u.protocol = "http:" \/ u.protocol = "https:" ELSE FALSE

\* the first platform, in table order, one of whose domains the hostname includes
extractPlatform(u) ==
    IF ~u.parses THEN Undefined
    ELSE LET hit(p) == \E d \in 1..Len(PLATFORM_DOMAINS[p]) :
                           Includes(u.hostname, PLATFORM_DOMAINS[p][d])
             hits == { i \in 1..Len(Platforms) : hit(Platforms[i]) }
         IN  IF hits = {} THEN Undefined
             ELSE Platforms[CHOOSE i \in hits : \A j \in hits : i <= j]

(***************************************************************************)
(* 4.2 YouTube normalizer.                                                 *)
(***************************************************************************)
\* pathSegments.find(segment => segment.length >= 10 && segment.length <= 11)
FindIdSegment(segments) ==
    LET ok == { i \in 1..Len(segments) :
                    Len(segments[i]) >= 10 /\ Len(segments[i]) <= 11 }
    IN  IF ok = {} THEN Undefined
        ELSE segments[CHOOSE i \in ok : \A j \in ok : i <= j]

\* a normalizer that reads the v parameter only (no short links, no shorts)
cleanYouTubeUrl_QueryOnly(u) ==
    IF ~u.parses THEN u
    ELSE LET videoId == IF Includes(u.hostname, "youtube.com") THEN u.v
                        ELSE Undefined
         IN  IF Truthy(videoId)
             THEN Url("https://www.youtube.com/watch?v=" \o videoId, "https:",
                      "www.youtube.com", "/watch", videoId)
             ELSE u

cleanYouTubeUrl(u) ==
    IF ~u.parses THEN u
    ELSE LET fromPath ==
                 IF Includes(u.hostname, "youtu.be") \/ Includes(u.pathname, "/shorts/")
                 THEN FindIdSegment(SplitSlash(u.pathname))
                 ELSE Undefined
             videoId ==
                 IF ~Truthy(fromPath) /\ Includes(u.hostname, "youtube.com")
                 THEN u.v
                 ELSE fromPath
         IN  IF Truthy(videoId)
             THEN Url("https://www.youtube.com/watch?v=" \o videoId, "https:",
                      "www.youtube.com", "/watch", videoId)
             ELSE u

extractYouTubeId(u) == IF u.parses THEN u.v ELSE Undefined

(***************************************************************************)
(* 4.3 Duration formatter.                                                 *)
(***************************************************************************)
Num(n) == [t |-> "number", n |-> n]
JsUndefined == [t |-> "undefined", n |-> 0]
JsNull == [t |-> "null", n |-> 0]
JsNaN == [t |-> "nan", n |-> 0]

\* !seconds || isNaN(seconds) || seconds < 0
DurationUnknown(s) ==
    \/ s.t \in {"undefined", "null", "nan"} \/ (s.t = "number" /\ s.n = 0)
    \/ s.t \in {"undefined", "nan"}
    \/ (s.t = "number" /\ s.n < 0)

formatDuration(s) ==
    IF DurationUnknown(s) THEN "Unknown"
    ELSE LET h == s.n \div 3600
             m == (s.n % 3600) \div 60
             sec == s.n % 60
             parts == IF h > 0 THEN <<h, m, sec>> ELSE <<m, sec>>
             show(index) == IF index = 1 /\ h > 0
                            THEN ToString(parts[index])
                            ELSE PadStart2(ToString(parts[index]))
         IN  JoinColon([index \in 1..Len(parts) |-> show(index)])

(***************************************************************************)
(* 4.4 Metadata providers.  A provider's outbound call settles with an     *)
(* outcome: a response, whose payload is given, or a rejection of the HTTP *)
(* client (network failure, non-2xx status, expiry of the timeout option). *)
(* VideoMetadata keeps the fields the handlers read (title, options) and   *)
(* uploader, duration and platform; id, thumbnail, description, viewCount  *)
(* and uploadDate are copied from the payload and read by no handler.      *)
(***************************************************************************)
Option(id, label, ext, quality, link) ==
    [id |-> id, label |-> label, ext |-> ext, quality |-> quality, url |-> link]

NoOption == Option(Undefined, Undefined, Undefined, Undefined, Undefined)

NoMetadata ==
    [title |-> Undefined, uploader |-> Undefined, duration |-> Undefined,
     options |-> <<>>, platform |-> Undefined]

Ok(data) == [ok |-> TRUE, message |-> Undefined, data |-> data]
Fail(message) == [ok |-> FALSE, message |-> message, data |-> NoMetadata]

\* the HTTP client's message when a call exceeds its timeout option
TimeoutMessage(ms) == "timeout of " \o ToString(ms) \o "ms exceeded"

\* error fields and messages an upstream service may answer with
UpstreamMessages ==
    { "404 Not Found", "Video unavailable", "Invalid URL",
      "video not found: Invalid id", "gateway timeout, video unavailable",
      "Unsupported link or timeout", "no matching providers found" }

Response(error, title, author) ==
    [kind |-> "response", error |-> error, title |-> title, author_name |-> author,
     message |-> Undefined, respError |-> Undefined, timeout |-> FALSE]

Rejection(message, respError, timeout) ==
    [kind |-> "error", error |-> Undefined, title |-> Undefined,
     author_name |-> Undefined, message |-> message, respError |-> respError,
     timeout |-> timeout]

NoembedOutcomes ==
    { Response(Undefined, "Never Gonna Give You Up", "Rick Astley"),
      Response(Undefined, Undefined, Undefined) }
    \cup { Response(e, Undefined, Undefined) : e \in UpstreamMessages }
    \cup { Rejection("getaddrinfo ENOTFOUND noembed.com", Undefined, FALSE),
           Rejection("Request failed with status code 500", Undefined, FALSE),
           Rejection("Request failed with status code 404", "Video unavailable", FALSE),
           Rejection(TimeoutMessage(NoembedTimeoutMs), Undefined, TRUE) }

YouTubeOptions ==
    << Option("best", "Best Quality (External)", "mp4", "1080p", Undefined),
       Option("720p", "HD 720p (External)", "mp4", "720p", Undefined),
       Option("480p", "SD 480p (External)", "mp4", "480p", Undefined),
       Option("audio", "Audio Only (External)", "mp3", "audio", Undefined) >>

\* whether getYouTubeMetadata reaches its axios.get
YouTubeCalls(u) == Truthy(extractYouTubeId(u))

getYouTubeMetadata(u, o) ==
    IF ~YouTubeCalls(u)
    THEN Fail("YouTube: Invalid video URL or ID could not be extracted.")
    ELSE LET thrown ==
                 IF o.kind = "error"
                 THEN IF Truthy(o.respError) THEN o.respError ELSE o.message
                 ELSE IF Truthy(o.error) THEN o.error ELSE Undefined
         IN  IF thrown # Undefined
             THEN Fail("YouTube: Could not fetch video information. Reason: "
                       \o thrown)
             ELSE Ok([title |-> IF Truthy(o.title) THEN o.title ELSE "YouTube Video",
                      uploader |-> IF Truthy(o.author_name) THEN o.author_name
                                   ELSE "YouTube",
                      duration |-> "Unknown",
                      options |-> YouTubeOptions,
                      platform |-> "YouTube"])

FacebookOptions ==
    << Option("best", "Best Quality (External)", "mp4", "best", Undefined),
       Option("sd", "Standard Quality (External)", "mp4", "480p", Undefined),
       Option("audio", "Audio Only (External)", "mp3", "audio", Undefined) >>

\* a provider that does not look at the payload's error field
getFacebookMetadata_IgnoresErrorField(u, o) ==
    IF o.kind = "error"
    THEN Fail("Facebook: Could not fetch video information. Reason: "
              \o (IF Truthy(o.respError) THEN o.respError ELSE o.message))
    ELSE Ok([title |-> IF Truthy(o.title) THEN o.title ELSE "Facebook Video",
             uploader |-> IF Truthy(o.author_name) THEN o.author_name
                          ELSE "Facebook",
             duration |-> "Unknown",
             options |-> FacebookOptions,
             platform |-> "Facebook"])

getFacebookMetadata(u, o) ==
    LET thrown ==
            IF o.kind = "error"
            THEN IF Truthy(o.respError) THEN o.respError ELSE o.message
            ELSE IF Truthy(o.error) THEN o.error ELSE Undefined
    IN  IF thrown # Undefined
        THEN Fail("Facebook: Could not fetch video information. Reason: "
                  \o thrown)
        ELSE Ok([title |-> IF Truthy(o.title) THEN o.title ELSE "Facebook Video",
                 uploader |-> IF Truthy(o.author_name) THEN o.author_name
                              ELSE "Facebook",
                 duration |-> "Unknown",
                 options |-> FacebookOptions,
                 platform |-> "Facebook"])

\* the resolver's answer {code, msg, data: {play, wmplay, title, duration}}
TikwmResponse(code, hasData, msg, play, wmplay, title, duration) ==
    [kind |-> "response", code |-> code, hasData |-> hasData, msg |-> msg,
     play |-> play, wmplay |-> wmplay, title |-> title, duration |-> duration,
     message |-> Undefined, timeout |-> FALSE]

TikwmRejection(message, timeout) ==
    [kind |-> "error", code |-> 0, hasData |-> FALSE, msg |-> Undefined,
     play |-> Undefined, wmplay |-> Undefined, title |-> Undefined,
     duration |-> JsUndefined, message |-> message, timeout |-> timeout]

PlayUrl == "https://cdn.tikwm.example/nowm.mp4"
WmPlayUrl == "https://cdn.tikwm.example/wm.mp4"

TikwmOutcomes ==
    { TikwmResponse(0, TRUE, "success", play, wmplay, title, duration) :
          play \in {Undefined, PlayUrl}, wmplay \in {Undefined, WmPlayUrl},
          title \in {Undefined, "My Clip #1"},
          duration \in {JsUndefined, Num(0), Num(65), Num(3661)} }
    \cup { TikwmResponse(-1, FALSE, m, Undefined, Undefined, Undefined, JsUndefined) :
               m \in UpstreamMessages \cup {Undefined} }
    \cup { TikwmResponse(0, FALSE, Undefined, Undefined, Undefined, Undefined,
                         JsUndefined),
           TikwmRejection("getaddrinfo ENOTFOUND www.tikwm.com", FALSE),
           TikwmRejection("Request failed with status code 503", FALSE),
           TikwmRejection(TimeoutMessage(TikTokTimeoutMs), TRUE) }

\* qualityOptions after the two pushes
TikTokOptions(o) ==
    (IF Truthy(o.play)
     THEN << Option("nowm", "HD (No Watermark)", "mp4", "best", o.play) >>
     ELSE << >>)
    \o
    (IF Truthy(o.wmplay)
     THEN << Option("wm", "Standard (With Watermark)", "mp4", "standard", o.wmplay) >>
     ELSE << >>)

\* a provider without the guard on an empty option list
NoFormats_Unchecked(options) == FALSE

\* the guard in front of the return: qualityOptions.length === 0 throws
NoFormats(options) == Len(options) = 0

getTikTokMetadata(u, o) ==
    IF o.kind = "error"
    THEN Fail("TikTok: " \o o.message)
    ELSE IF o.code # 0 \/ ~o.hasData
    THEN Fail("TikTok: " \o "TikTok API Error: "
              \o (IF Truthy(o.msg) THEN o.msg ELSE "Video not found or unavailable."))
    ELSE IF NoFormats(TikTokOptions(o))
    THEN Fail("TikTok: " \o "No video formats available for this TikTok.")
    ELSE Ok([title |-> IF Truthy(o.title) THEN o.title ELSE "TikTok Video",
             uploader |-> "TikTok User",
             duration |-> formatDuration(o.duration),
             options |-> TikTokOptions(o),
             platform |-> "TikTok"])

(***************************************************************************)
(* Text conversions of the download handler.                               *)
(***************************************************************************)
LowerCase == "abcdefghijklmnopqrstuvwxyz"
UpperCase == "ABCDEFGHIJKLMNOPQRSTUVWXYZ"
Digits == "0123456789"

IndexIn(c, alphabet) ==
    LET at == { i \in 1..Len(alphabet) : SubSeq(alphabet, i, i) = c }
    IN  IF at = {} THEN 0 ELSE CHOOSE i \in at : TRUE

\* the percent code of the ASCII characters encodeURIComponent escapes
PercentCodes ==
    << <<" ", "%20">>, <<"#", "%23">>, <<"$", "%24">>, <<"%", "%25">>,
       <<"&", "%26">>, <<"+", "%2B">>, <<",", "%2C">>, <<"/", "%2F">>,
       <<":", "%3A">>, <<";", "%3B">>, <<"=", "%3D">>, <<"?", "%3F">>,
       <<"@", "%40">> >>

EncodeChar(c) ==
    LET at == { i \in 1..Len(PercentCodes) : PercentCodes[i][1] = c }
    IN  IF at = {} THEN c ELSE PercentCodes[CHOOSE i \in at : TRUE][2]

\* encodeURIComponent(s), for ASCII s
RECURSIVE encodeURIComponent(_)
encodeURIComponent(s) ==
    IF Len(s) = 0 THEN ""
    ELSE EncodeChar(SubSeq(s, 1, 1)) \o encodeURIComponent(SubSeq(s, 2, Len(s)))

\* one character of title.replace(/[^a-z0-9]/gi, "_").toLowerCase()
SanitizeChar(c) ==
    IF IndexIn(c, LowerCase) > 0 \/ IndexIn(c, Digits) > 0 THEN c
    ELSE IF IndexIn(c, UpperCase) > 0
    THEN SubSeq(LowerCase, IndexIn(c, UpperCase), IndexIn(c, UpperCase))
    ELSE "_"

RECURSIVE SanitizeTitle(_)
SanitizeTitle(s) ==
    IF Len(s) = 0 THEN ""
    ELSE SanitizeChar(SubSeq(s, 1, 1)) \o SanitizeTitle(SubSeq(s, 2, Len(s)))

(***************************************************************************)
(* 4.5 Responses.  started counts the times a response head was written    *)
(* (res.headersSent is started > 0); ended says the body was completed.    *)
(***************************************************************************)
NoResponse ==
    [started |-> 0, ended |-> FALSE, status |-> 0, kind |-> "none",
     success |-> FALSE, error |-> Undefined, data |-> NoMetadata,
     location |-> Undefined, filename |-> Undefined, contentType |-> Undefined]

\* res.status(status).json({success: false, error: message})
JsonError(r, status, message) ==
    [r EXCEPT !.started = @ + 1, !.ended = TRUE, !.status = status,
              !.kind = "json", !.success = FALSE, !.error = message]

\* res.json({success: true, data: ...})
JsonSuccess(r, data) ==
    [r EXCEPT !.started = @ + 1, !.ended = TRUE, !.status = 200,
              !.kind = "json", !.success = TRUE, !.data = data]

\* res.redirect(302, downloadUrl)
Redirect(r, downloadUrl) ==
    [r EXCEPT !.started = @ + 1, !.ended = TRUE, !.status = 302,
              !.kind = "redirect", !.location = downloadUrl]

\* the two setHeader calls and the first bytes of videoResponse.data.pipe(res)
StartStream(r, filename, contentType) ==
    [r EXCEPT !.started = @ + 1, !.status = 200, !.kind = "stream",
              !.filename = filename, !.contentType = contentType]

headersSent(r) == r.started > 0

NoCalls == [noembed |-> 0, tikwm |-> 0, stream |-> 0]

TotalCalls(c) == c.noembed + c.tikwm + c.stream

NoRequest ==
    [endpoint |-> Undefined, url |-> NotUrl("undefined", ""),
     format |-> Undefined, key |-> Undefined]

Formats == {Undefined, "nowm", "wm", "best"}
Keys == {Undefined, "s3cret", "guess"}

\* a catch that tests "Invalid"/"Unsupported" before "not found"/"unavailable"
MetadataStatus_InvalidFirst(errorMessage) ==
    IF Includes(errorMessage, "Invalid") \/ Includes(errorMessage, "Unsupported")
    THEN 400
    ELSE IF Includes(errorMessage, "not found") \/ Includes(errorMessage, "unavailable")
    THEN 404
    ELSE IF Includes(errorMessage, "timeout")
    THEN 504
    ELSE 500

\* the metadata handler's catch: the status chosen from the message
MetadataStatus(errorMessage) ==
    IF Includes(errorMessage, "not found") \/ Includes(errorMessage, "unavailable")
    THEN 404
    ELSE IF Includes(errorMessage, "Invalid") \/ Includes(errorMessage, "Unsupported")
    THEN 400
    ELSE IF Includes(errorMessage, "timeout")
    THEN 504
    ELSE 500

\* the download handler's catch
DownloadStatus(errorMessage) ==
    IF Includes(errorMessage, "No valid download URL") THEN 404 ELSE 500

\* the API-key gate of the download handler
KeyRejected(apiKey, key) == Truthy(apiKey) /\ key # apiKey

\* options.find(id === format) || options.find(id === "nowm") || options[0]
FindOption(options, id) ==
    LET at == { i \in 1..Len(options) : options[i].id = id }
    IN  IF at = {} THEN NoOption
        ELSE options[CHOOSE i \in at : \A j \in at : i <= j]

\* a selection that prefers the no-watermark option to the requested format
SelectOption_NowmFirst(options, format) ==
    IF FindOption(options, "nowm") # NoOption
    THEN FindOption(options, "nowm")
    ELSE IF format # Undefined /\ FindOption(options, format) # NoOption
    THEN FindOption(options, format)
    ELSE IF Len(options) > 0 THEN options[1] ELSE NoOption

SelectOption(options, format) ==
    IF format # Undefined /\ FindOption(options, format) # NoOption
    THEN FindOption(options, format)
    ELSE IF FindOption(options, "nowm") # NoOption
    THEN FindOption(options, "nowm")
    ELSE IF Len(options) > 0 THEN options[1] ELSE NoOption

(***************************************************************************)
(* State.  One request is in flight at a time: every entity is             *)
(* request-scoped and the handlers share no mutable state, so requests do  *)
(* not interfere.  pc is the position of the request's handler:            *)
(*   idle           no request yet                                         *)
(*   awaitProvider  /api/metadata awaits its provider's outbound call      *)
(*   awaitTikTok    /api/download awaits getTikTokMetadata                 *)
(*   awaitStream    /api/download awaits the streaming GET                 *)
(*   piping         videoResponse.data.pipe(res) is copying bytes          *)
(*   done           the handler returned and the response was completed    *)
(*   stalled        the upstream stream broke while piping                 *)
(*   rejected       the async handler's promise rejected outside any try   *)
(* url is the handler's local of that name (the cleaned URL on YouTube);   *)
(* calls counts the outbound calls per call site, failures the outbound    *)
(* calls that failed, lateCalls the calls issued after a failure, timedOut *)
(* whether an outbound call exceeded its timeout option, upstream the last *)
(* outcome an outbound call settled with and streamUrl the URL of the      *)
(* streaming GET.                                                          *)
(***************************************************************************)
Finished == {"done", "stalled", "rejected"}

NoUpstream == [site |-> Undefined, outcome |-> Undefined]

\* the outcome makes the call fail: the HTTP client rejected, or the payload
\* reports an error (noembed's error field, the resolver's code or missing data)
OutboundFailed(site, o) ==
    \/ o.kind = "error"
    \/ (site = "noembed" /\ Truthy(o.error))
    \/ (site = "tikwm" /\ (o.code # 0 \/ ~o.hasData))

Init ==
    /\ API_KEY \in {"", "s3cret"}
    /\ pc = "idle"
    /\ req = NoRequest
    /\ url = NoRequest.url
    /\ platform = Undefined
    /\ res = NoResponse
    /\ calls = NoCalls
    /\ failures = 0
    /\ lateCalls = 0
    /\ timedOut = FALSE
    /\ upstream = NoUpstream
    /\ streamUrl = Undefined
    /\ metadata = NoMetadata
    /\ selectedOption = NoOption
    /\ seconds = JsUndefined
    /\ formatted = Undefined

\* an outbound call is issued at call site `site`
Issue(site) ==
    /\ calls' = [calls EXCEPT ![site] = @ + 1]
    /\ lateCalls' = IF failures > 0 THEN lateCalls + 1 ELSE lateCalls

NoIssue == UNCHANGED <<calls, lateCalls>>

\* req.query.url?.trim() is falsy
MissingUrl(u) == u.kind = "undefined" \/ (u.kind = "string" /\ u.text = "")

\* a rejected promise returned by an async route handler: the router calls the
\* handler inside a synchronous try and drops the promise, so neither next(err)
\* nor the error-handling middleware runs and nothing is written to res
UnhandledRejection(r) == r

\* GET /api/health
HealthRequest ==
    /\ pc = "idle"
    /\ req' = [NoRequest EXCEPT !.endpoint = "health"]
    /\ url' = NoRequest.url
    /\ res' = [res EXCEPT !.started = @ + 1, !.ended = TRUE, !.status = 200,
                          !.kind = "json", !.success = TRUE]
    /\ pc' = "done"
    /\ NoIssue
    /\ UNCHANGED <<API_KEY, platform, failures, timedOut, upstream, streamUrl,
                   metadata, selectedOption, seconds, formatted>>

\* GET /api/metadata, up to its first await
MetadataRequest ==
    /\ pc = "idle"
    /\ \E u \in UrlInputs :
        LET p == extractPlatform(u)
            cleaned == IF p = "YouTube" THEN cleanYouTubeUrl(u) ELSE u
            thrown == getYouTubeMetadata(cleaned,
                                         Response(Undefined, Undefined, Undefined))
        IN  /\ req' = [NoRequest EXCEPT !.endpoint = "metadata", !.url = u]
            /\ url' = IF u.kind = "string" /\ isValidUrl(u) THEN cleaned ELSE u
            /\ IF u.kind = "nonstring"
               THEN /\ res' = UnhandledRejection(res)
                    /\ pc' = "rejected"
                    /\ platform' = Undefined
                    /\ NoIssue
               ELSE IF MissingUrl(u)
               THEN /\ res' = JsonError(res, 400, "URL parameter is required.")
                    /\ pc' = "done"
                    /\ platform' = Undefined
                    /\ NoIssue
               ELSE IF ~isValidUrl(u)
               THEN /\ res' = JsonError(res, 400,
                                 "Invalid URL format. Must include http:// or https://")
                    /\ pc' = "done"
                    /\ platform' = Undefined
                    /\ NoIssue
               ELSE IF p = Undefined
               THEN /\ res' = JsonError(res, 400,
                                 "Unsupported platform. Supported: YouTube, TikTok, Facebook")
                    /\ pc' = "done"
                    /\ platform' = Undefined
                    /\ NoIssue
               ELSE IF p = "YouTube" /\ ~YouTubeCalls(cleaned)
               THEN /\ res' = JsonError(res, MetadataStatus(thrown.message),
                                        thrown.message)
                    /\ pc' = "done"
                    /\ platform' = p
                    /\ NoIssue
               ELSE /\ res' = res
                    /\ pc' = "awaitProvider"
                    /\ platform' = p
                    /\ Issue(IF p = "TikTok" THEN "tikwm" ELSE "noembed")
    /\ UNCHANGED <<API_KEY, failures, timedOut, upstream, streamUrl, metadata,
                   selectedOption, seconds, formatted>>

\* the provider's call settles; the rest of the /api/metadata handler runs
MetadataProviderSettles ==
    /\ pc = "awaitProvider"
    /\ \E o \in (IF platform = "TikTok" THEN TikwmOutcomes ELSE NoembedOutcomes) :
        LET site == IF platform = "TikTok" THEN "tikwm" ELSE "noembed"
            result ==
                IF platform = "YouTube"
                THEN getYouTubeMetadata(url, o)
                ELSE IF platform = "TikTok"
                THEN getTikTokMetadata(url, o)
                ELSE getFacebookMetadata(url, o)
        IN  /\ res' = IF result.ok
                      THEN JsonSuccess(res, result.data)
                      ELSE JsonError(res, MetadataStatus(result.message),
                                     result.message)
            /\ failures' = IF OutboundFailed(site, o) THEN failures + 1
                           ELSE failures
            /\ timedOut' = o.timeout
            /\ upstream' = [site |-> site, outcome |-> o]
    /\ pc' = "done"
    /\ NoIssue
    /\ UNCHANGED <<API_KEY, req, url, platform, streamUrl, metadata, selectedOption,
                   seconds, formatted>>

\* GET /api/download, up to its first await
DownloadRequest ==
    /\ pc = "idle"
    /\ \E u \in UrlInputs, format \in Formats, key \in Keys :
        LET p == extractPlatform(u)
            typeError == "req.query.url?.trim is not a function"
        IN  /\ req' = [endpoint |-> "download", url |-> u, format |-> format,
                       key |-> key]
            /\ url' = u
            /\ IF u.kind = "nonstring"
               THEN /\ res' = IF headersSent(res) THEN res
                              ELSE JsonError(res, DownloadStatus(typeError),
                                             "Download failed: " \o typeError)
                    /\ pc' = "done"
                    /\ platform' = Undefined
                    /\ NoIssue
               ELSE IF KeyRejected(API_KEY, key)
               THEN /\ res' = JsonError(res, 401, "Invalid API key.")
                    /\ pc' = "done"
                    /\ platform' = Undefined
                    /\ NoIssue
               ELSE IF MissingUrl(u) \/ ~isValidUrl(u)
               THEN /\ res' = JsonError(res, 400, "Invalid or missing URL parameter.")
                    /\ pc' = "done"
                    /\ platform' = Undefined
                    /\ NoIssue
               ELSE IF p = Undefined
               THEN /\ res' = JsonError(res, 400, "Unsupported platform for download.")
                    /\ pc' = "done"
                    /\ platform' = Undefined
                    /\ NoIssue
               ELSE IF p = "YouTube"
               THEN /\ res' = Redirect(res, "https://loader.to/api/download/?url="
                                  \o encodeURIComponent(cleanYouTubeUrl(u).text)
                                  \o "&format=mp4")
                    /\ pc' = "done"
                    /\ platform' = p
                    /\ NoIssue
               ELSE IF p = "Facebook"
               THEN /\ res' = Redirect(res, "https://getmyfb.com/process/?url="
                                  \o encodeURIComponent(u.text))
                    /\ pc' = "done"
                    /\ platform' = p
                    /\ NoIssue
               ELSE /\ res' = res
                    /\ pc' = "awaitTikTok"
                    /\ platform' = p
                    /\ Issue("tikwm")
    /\ UNCHANGED <<API_KEY, failures, timedOut, upstream, streamUrl, metadata,
                   selectedOption, seconds, formatted>>

\* getTikTokMetadata settles; the handler selects the option and, if one has
\* a URL, issues the streaming GET
DownloadTikTokSettles ==
    /\ pc = "awaitTikTok"
    /\ \E o \in TikwmOutcomes :
        LET result == getTikTokMetadata(url, o)
            option == SelectOption(result.data.options, req.format)
            noUrl == "No valid download URL found for the selected format."
        IN  /\ timedOut' = o.timeout
            /\ upstream' = [site |-> "tikwm", outcome |-> o]
            /\ failures' = IF OutboundFailed("tikwm", o) THEN failures + 1
                           ELSE failures
            /\ IF ~result.ok
               THEN /\ res' = IF headersSent(res) THEN res
                              ELSE JsonError(res, DownloadStatus(result.message),
                                             "Download failed: " \o result.message)
                    /\ pc' = "done"
                    /\ NoIssue
                    /\ UNCHANGED <<metadata, selectedOption, streamUrl>>
               ELSE IF option = NoOption \/ ~Truthy(option.url)
               THEN /\ res' = IF headersSent(res) THEN res
                              ELSE JsonError(res, DownloadStatus(noUrl),
                                             "Download failed: " \o noUrl)
                    /\ pc' = "done"
                    /\ NoIssue
                    /\ metadata' = result.data
                    /\ selectedOption' = option
                    /\ UNCHANGED streamUrl
               ELSE /\ res' = res
                    /\ pc' = "awaitStream"
                    /\ Issue("stream")
                    /\ streamUrl' = option.url
                    /\ metadata' = result.data
                    /\ selectedOption' = option
    /\ UNCHANGED <<API_KEY, req, url, platform, seconds, formatted>>

\* outcomes of axios({method: "GET", url: selectedOption.url, responseType: "stream"})
StreamOutcomes ==
    { [kind |-> "response", message |-> Undefined, timeout |-> FALSE],
      [kind |-> "error", message |-> "Request failed with status code 403",
       timeout |-> FALSE],
      [kind |-> "error", message |-> "socket hang up", timeout |-> FALSE],
      [kind |-> "error", message |-> TimeoutMessage(StreamTimeoutMs),
       timeout |-> TRUE] }

\* the streaming GET settles; on a response the headers are set and piping begins
DownloadStreamSettles ==
    /\ pc = "awaitStream"
    /\ \E o \in StreamOutcomes :
        /\ timedOut' = o.timeout
        /\ upstream' = [site |-> "stream", outcome |-> o]
        /\ failures' = IF OutboundFailed("stream", o) THEN failures + 1
                       ELSE failures
        /\ IF o.kind = "error"
           THEN /\ res' = IF headersSent(res) THEN res
                          ELSE JsonError(res, DownloadStatus(o.message),
                                         "Download failed: " \o o.message)
                /\ pc' = "done"
           ELSE /\ res' = StartStream(res,
                              SanitizeTitle(metadata.title) \o "."
                              \o (IF Truthy(selectedOption.ext)
                                  THEN selectedOption.ext ELSE "mp4"),
                              "video/mp4")
                /\ pc' = "piping"
    /\ NoIssue
    /\ UNCHANGED <<API_KEY, req, url, platform, streamUrl, metadata, selectedOption,
                   seconds, formatted>>

\* the upstream stream ends: pipe ends res
PipeEnd ==
    /\ pc = "piping"
    /\ res' = [res EXCEPT !.ended = TRUE]
    /\ pc' = "done"
    /\ UNCHANGED <<API_KEY, req, url, platform, calls, failures, lateCalls, timedOut,
                   upstream, streamUrl, metadata, selectedOption, seconds,
                   formatted>>

\* the upstream stream breaks after piping began: pipe neither ends res nor
\* throws into the handler, which has already returned
PipeFail ==
    /\ pc = "piping"
    /\ pc' = "stalled"
    /\ UNCHANGED <<API_KEY, req, url, platform, res, calls, failures, lateCalls,
                   timedOut, upstream, streamUrl, metadata, selectedOption,
                   seconds, formatted>>

\* the next request arrives; nothing of the previous one is kept
NextRequest ==
    /\ pc \in Finished
    /\ pc' = "idle"
    /\ req' = NoRequest
    /\ url' = NoRequest.url
    /\ platform' = Undefined
    /\ res' = NoResponse
    /\ calls' = NoCalls
    /\ failures' = 0
    /\ lateCalls' = 0
    /\ timedOut' = FALSE
    /\ upstream' = NoUpstream
    /\ streamUrl' = Undefined
    /\ metadata' = NoMetadata
    /\ selectedOption' = NoOption
    /\ UNCHANGED <<API_KEY, seconds, formatted>>

Next ==
    \/ HealthRequest
    \/ MetadataRequest
    \/ MetadataProviderSettles
    \/ DownloadRequest
    \/ DownloadTikTokSettles
    \/ DownloadStreamSettles
    \/ PipeEnd
    \/ PipeFail
    \/ NextRequest

Spec == Init /\ [][Next]_vars

(***************************************************************************)
(* formatDuration on its own: the input is drawn from the JavaScript       *)
(* values null, undefined, NaN and every integer of the bounds.            *)
(***************************************************************************)
DurationInputs ==
    {JsUndefined, JsNull, JsNaN} \cup { Num(n) : n \in (0 - MinSeconds)..MaxSeconds }

InitDuration ==
    /\ API_KEY = ""
    /\ pc = "format"
    /\ req = NoRequest
    /\ url = NoRequest.url
    /\ platform = Undefined
    /\ res = NoResponse
    /\ calls = NoCalls
    /\ failures = 0
    /\ lateCalls = 0
    /\ timedOut = FALSE
    /\ upstream = NoUpstream
    /\ streamUrl = Undefined
    /\ metadata = NoMetadata
    /\ selectedOption = NoOption
    /\ seconds \in DurationInputs
    /\ formatted = Undefined

FormatDuration ==
    /\ pc = "format"
    /\ formatted' = formatDuration(seconds)
    /\ pc' = "formatted"
    /\ UNCHANGED <<API_KEY, req, url, platform, res, calls, failures, lateCalls,
                   timedOut, upstream, streamUrl, metadata, selectedOption,
                   seconds>>

NextDuration == FormatDuration

SpecDuration == InitDuration /\ [][NextDuration]_vars

\* every outbound call settles (each carries a timeout option) and a piped
\* stream ends or breaks
FairSpec ==
    /\ Spec
    /\ WF_vars(MetadataProviderSettles)
    /\ WF_vars(DownloadTikTokSettles)
    /\ WF_vars(DownloadStreamSettles)
    /\ WF_vars(PipeEnd \/ PipeFail)

(***************************************************************************)
(* The claims.                                                             *)
(***************************************************************************)
Received(endpoint) == req.endpoint = endpoint /\ pc # "idle"

KeyMismatch == API_KEY # "" /\ req.key # API_KEY

\* C1: on /api/download, whenever a key is configured and the supplied key is
\* missing or different, the response is 401 {success:false, error:"Invalid API
\* key."} for every value of url and format, with no outbound call; when no key
\* is configured the endpoint never answers 401.
C1_KeyMismatchAnswers401 ==
    /\ (Received("download") /\ KeyMismatch) =>
           /\ pc = "done"
           /\ res.started = 1
           /\ res.status = 401
           /\ res.kind = "json"
           /\ ~res.success
           /\ res.error = "Invalid API key."
           /\ TotalCalls(calls) = 0
    /\ (Received("download") /\ API_KEY = "") => res.status # 401

\* C1, what the code does: the same, for a url that is missing or a string
C1_KeyMismatchAnswers401ForStringUrl ==
    /\ (Received("download") /\ KeyMismatch /\ req.url.kind # "nonstring") =>
           /\ pc = "done"
           /\ res.started = 1
           /\ res.status = 401
           /\ res.error = "Invalid API key."
           /\ TotalCalls(calls) = 0
    /\ (Received("download") /\ KeyMismatch /\ req.url.kind = "nonstring") =>
           /\ res.status = 500
           /\ TotalCalls(calls) = 0
    /\ (Received("download") /\ API_KEY = "") => res.status # 401

ProviderFailed ==
    /\ Received("metadata")
    /\ pc = "done"
    /\ platform # Undefined
    /\ ~res.success

NeitherPlayNorWmplay ==
    /\ upstream.site = "tikwm"
    /\ upstream.outcome.kind = "response"
    /\ upstream.outcome.code = 0
    /\ upstream.outcome.hasData
    /\ ~Truthy(upstream.outcome.play)
    /\ ~Truthy(upstream.outcome.wmplay)

\* C2: on /api/metadata, when the provider fails, the status is chosen from the
\* error message by first match: "not found" or "unavailable" gives 404; else
\* "Invalid" or "Unsupported" gives 400; else "timeout" gives 504; else 500; the
\* body is {success:false, error:<message>}.  A TikTok response with neither
\* play nor wmplay makes the provider fail and the endpoint answer 500.
C2_MetadataStatusByFirstMatch ==
    /\ ProviderFailed =>
        LET m == res.error
            notFound == Includes(m, "not found") \/ Includes(m, "unavailable")
            invalid == Includes(m, "Invalid") \/ Includes(m, "Unsupported")
            timeout == Includes(m, "timeout")
        IN  /\ res.kind = "json"
            /\ res.started = 1
            /\ m # Undefined
            /\ notFound => res.status = 404
            /\ (~notFound /\ invalid) => res.status = 400
            /\ (~notFound /\ ~invalid /\ timeout) => res.status = 504
            /\ (~notFound /\ ~invalid /\ ~timeout) => res.status = 500
    /\ (Received("metadata") /\ pc = "done" /\ NeitherPlayNorWmplay) =>
           /\ ~res.success
           /\ res.status = 500
           /\ res.error = "TikTok: No video formats available for this TikTok."

\* C2 happens: a message with both "not found" and "Invalid" is answered 404
C2_Witness ==
    /\ ProviderFailed
    /\ Includes(res.error, "not found")
    /\ Includes(res.error, "Invalid")
    /\ res.status = 404

\* C3: whenever an outbound call made for a request exceeds its deadline, the
\* request is answered 504, on the metadata and on the download endpoint.
C3_TimeoutAnswers504 ==
    (pc \in Finished /\ timedOut) => res.status = 504

\* C3, what the code does: 504 on /api/metadata, 500 on /api/download
C3_TimeoutStatusByEndpoint ==
    /\ (pc \in Finished /\ timedOut /\ req.endpoint = "metadata") =>
           res.status = 504
    /\ (pc \in Finished /\ timedOut /\ req.endpoint = "download") =>
           res.status = 500

\* C4: on a TikTok /api/download, when the resolver returned neither play nor
\* wmplay (no option carries a resolvable URL), the request fails with 404.
C4_NoResolvableUrlAnswers404 ==
    (Received("download") /\ pc = "done" /\ NeitherPlayNorWmplay) =>
        res.status = 404

\* C4, what the code does: the provider's own failure is answered 500
C4_NoResolvableUrlAnswers500 ==
    (Received("download") /\ pc = "done" /\ NeitherPlayNorWmplay) =>
        /\ res.status = 500
        /\ res.error = "Download failed: TikTok: No video formats available for this TikTok."

HasId(options, id) == \E i \in 1..Len(options) : options[i].id = id

\* C5: on a TikTok /api/download, for every format and every non-empty option
\* list of the provider, the option streamed is the one whose id equals format
\* if there is one, otherwise the "nowm" option if present, otherwise the first.
C5_StreamedOptionSelection ==
    (Received("download") /\ calls.stream > 0) =>
        LET options == metadata.options
            format == req.format
        IN  /\ Len(options) > 0
            /\ \E i \in 1..Len(options) : options[i] = selectedOption
            /\ streamUrl = selectedOption.url
            /\ HasId(options, format) => selectedOption.id = format
            /\ (~HasId(options, format) /\ HasId(options, "nowm")) =>
                   selectedOption.id = "nowm"
            /\ (~HasId(options, format) /\ ~HasId(options, "nowm")) =>
                   selectedOption = options[1]

\* C5 happens: format "wm" is requested, both options are offered, and the
\* watermarked one is streamed
C5_Witness ==
    /\ Received("download")
    /\ pc = "piping"
    /\ req.format = "wm"
    /\ Len(metadata.options) = 2
    /\ streamUrl = WmPlayUrl

\* C6: every request to /api/metadata and /api/download, under every outcome of
\* its outbound calls, gets a response, and exactly one response is started
\* per request.
C6_EveryRequestGetsOneResponse ==
    (pc \in Finished /\ req.endpoint \in {"metadata", "download"}) =>
        res.started = 1

\* C6, what the code does: no response is started twice, and every request but
\* an /api/metadata request whose url is not a string gets one
C6_AtMostOneResponse == res.started <= 1

C6_ResponseUnlessHandlerRejects ==
    (pc \in Finished /\ pc # "rejected") => res.started = 1

C6_EventuallyAnsweredUnlessRejected ==
    (pc \in {"awaitProvider", "awaitTikTok", "awaitStream"}) ~> (res.started = 1)

C6_NoJsonAfterStreaming ==
    [][(res.kind = "stream") => (res' = NoResponse \/ res'.kind = "stream")]_vars

\* the duration format of the specification: M:SS when the hours are zero,
\* H:MM:SS otherwise
ClaimedDuration(s) ==
    IF s.t # "number" \/ s.n < 0 THEN "Unknown"
    ELSE LET h == s.n \div 3600
             m == (s.n % 3600) \div 60
             sec == s.n % 60
         IN  IF h = 0
             THEN ToString(m) \o ":" \o PadStart2(ToString(sec))
             ELSE ToString(h) \o ":" \o PadStart2(ToString(m)) \o ":"
                  \o PadStart2(ToString(sec))

\* C7: formatDuration returns "Unknown" for null, NaN and negative input, and
\* for every integer seconds >= 0 M:SS when the hours are zero and H:MM:SS
\* otherwise: formatDuration(0) = "0:00", formatDuration(65) = "1:05",
\* formatDuration(3661) = "1:01:01".
C7_FormatDurationAsSpecified ==
    /\ pc = "formatted" => formatted = ClaimedDuration(seconds)
    /\ ClaimedDuration(Num(0)) = "0:00"
    /\ ClaimedDuration(Num(65)) = "1:05"
    /\ ClaimedDuration(Num(3661)) = "1:01:01"

\* C7, what the code does: 0 is "Unknown" too, and the minutes are two-digit
\* when the hours are zero (MM:SS)
C7_FormatDurationAsCoded ==
    pc = "formatted" =>
        formatted =
            IF seconds.t # "number" \/ seconds.n <= 0 THEN "Unknown"
            ELSE IF seconds.n < 3600
            THEN PadStart2(ToString(seconds.n \div 60)) \o ":"
                 \o PadStart2(ToString(seconds.n % 60))
            ELSE ClaimedDuration(seconds)

\* C8: a VideoMetadata record returned on success has a non-empty options
\* list, for every provider and every upstream response; a provider that would
\* produce zero options fails instead.
C8_OptionsNeverEmptyOnSuccess ==
    /\ (Received("metadata") /\ res.success) => Len(res.data.options) > 0
    /\ (Received("download") /\ pc \in {"awaitStream", "piping", "stalled"}) =>
           Len(metadata.options) > 0
    /\ (pc = "done" /\ NeitherPlayNorWmplay) => ~res.success

\* C8 happens: a TikTok lookup with one playable link succeeds with one option
C8_Witness ==
    /\ Received("metadata")
    /\ platform = "TikTok"
    /\ res.success
    /\ Len(res.data.options) = 1

KeyPasses == API_KEY = "" \/ req.key = API_KEY

\* the redirect target of each YouTube and Facebook URL of UrlInputs
ExpectedLocation(text) ==
    IF text = "http://www.facebook.com/watch/12345"
    THEN "https://getmyfb.com/process/?url=http%3A%2F%2Fwww.facebook.com%2Fwatch%2F12345"
    ELSE IF text = "https://www.youtube.com/watch"
    THEN "https://loader.to/api/download/?url=https%3A%2F%2Fwww.youtube.com%2Fwatch&format=mp4"
    ELSE "https://loader.to/api/download/?url=https%3A%2F%2Fwww.youtube.com%2Fwatch%3Fv%3DdQw4w9WgXcQ&format=mp4"

\* C9: on /api/download with a valid URL classified as YouTube or Facebook and
\* a passing key check, the response is a 302 redirect to the third-party
\* downloader embedding the URL (cleaned for YouTube), and no outbound call is
\* made for the request.
C9_RedirectWithoutOutboundCall ==
    (/\ Received("download")
     /\ KeyPasses
     /\ req.url.kind = "string"
     /\ isValidUrl(req.url)
     /\ extractPlatform(req.url) \in {"YouTube", "Facebook"}) =>
        /\ pc = "done"
        /\ res.started = 1
        /\ res.status = 302
        /\ res.kind = "redirect"
        /\ res.location = ExpectedLocation(req.url.text)
        /\ TotalCalls(calls) = 0
        /\ upstream = NoUpstream

\* C9 happens: a youtu.be short link is redirected to its cleaned watch URL
C9_Witness ==
    /\ Received("download")
    /\ req.url.hostname = "youtu.be"
    /\ res.status = 302
    /\ Includes(res.location, "watch%3Fv%3DdQw4w9WgXcQ")

====
